---- MODULE Spec2Model ----
(***************************************************************************)
(* Model of the OWMean widget (Orange/widgets/regression/owmean.py).       *)
(*                                                                         *)
(* The widget is driven by a single-threaded GUI event loop: one handler   *)
(* runs at a time, to completion.  The handlers are set_data (the "Data"   *)
(* input signal), apply (the "Apply" button, also called by set_data and   *)
(* by the constructor) and the edit of the learner_name line edit.  apply  *)
(* is modelled in three steps (lines 43-52, line 54, line 55) so that the  *)
(* order of its two sends is part of the behaviour; pc = "idle" is the     *)
(* state in which no callback is executing.                                *)
(*                                                                         *)
(* The "Preprocessor" input inherited from OWProvidesLearner (line 15) has *)
(* its handler outside this file; it is never delivered in this model, so  *)
(* preprocessors keeps the value given by the constructor.                 *)
(***************************************************************************)
EXTENDS Integers, Sequences, FiniteSets

\* ---------------------------------------------------------------- bounds
\* number of distinct datasets of each kind offered on the Data input
NumTables == 2
\* number of learner objects the widget may create (constructor included)
MaxLearners == 4

\* ---------------------------------------------------------------- values
None == [kind |-> "None"]

\* settings.Setting("Mean Learner"), line 19
DefaultLearnerName == "Mean Learner"
\* values the user may type in the "Learner Name" line edit
Names == {DefaultLearnerName, "My Mean"}

\* name of a learner / model object before the widget assigns one
UnsetName == "mean"

\* learner.learner_adequacy_err_msg, line 49
learner_adequacy_err_msg == "adequacy_err_msg"
\* no error annotation displayed under id 0
NoError == ""

\* a dataset: an identity and a domain; the domain determines the outcome
\* of the learner's adequacy check
\* (tables 1..NumTables are adequate for the learner, the others are not)
Tables == { [kind |-> "Table", id |-> i, domain |-> [adequate |-> i <= NumTables]] :
              i \in 1..(2 * NumTables) }
\* what the Data input may deliver
DataArgs == Tables \cup {None}

VARIABLES
    data,           \* self.data
    preprocessors,  \* self.preprocessors
    learner_name,   \* self.learner_name (setting bound to the line edit)
    error,          \* text of the error annotation with id 0, NoError if none
    outputs,        \* value most recently sent on each output channel
    sent,           \* every send so far, in order: [channel, value]
    nobj,           \* number of learner objects created so far
    fits,           \* calls learner(data) made so far: <<learner id, table id>>
    pc,             \* position of the running callback, "idle" if none
    learner,        \* local variable learner of apply
    predictor,      \* local variable predictor of apply
    call            \* handler most recently invoked by the framework, with its argument

vars == <<data, preprocessors, learner_name, error, outputs, sent, nobj, fits,
          pc, learner, predictor, call>>

\* the widget as one record, so that handlers can be written as functions
W == [data |-> data, preprocessors |-> preprocessors,
      learner_name |-> learner_name, error |-> error, outputs |-> outputs,
      sent |-> sent, nobj |-> nobj, fits |-> fits, pc |-> pc,
      learner |-> learner, predictor |-> predictor, call |-> call]

Is(w) ==
    /\ data = w.data
    /\ preprocessors = w.preprocessors
    /\ learner_name = w.learner_name
    /\ error = w.error
    /\ outputs = w.outputs
    /\ sent = w.sent
    /\ nobj = w.nobj
    /\ fits = w.fits
    /\ pc = w.pc
    /\ learner = w.learner
    /\ predictor = w.predictor
    /\ call = w.call

Becomes(w) ==
    /\ data' = w.data
    /\ preprocessors' = w.preprocessors
    /\ learner_name' = w.learner_name
    /\ error' = w.error
    /\ outputs' = w.outputs
    /\ sent' = w.sent
    /\ nobj' = w.nobj
    /\ fits' = w.fits
    /\ pc' = w.pc
    /\ learner' = w.learner
    /\ predictor' = w.predictor
    /\ call' = w.call

\* ------------------------------------------------------- library objects
\* MeanLearner and MeanModel live outside this file.  The widget only sees
\* that the constructor returns a new object, that the adequacy check is a
\* verdict on the domain, and that calling the learner returns a model; the
\* calls are taken to return normally.
\* self.LEARNER(preprocessors=...): a new learner object, line 43
LEARNER(id, preprocs) ==
    [kind |-> "Learner", id |-> id, name |-> UnsetName, preprocessors |-> preprocs]

\* learner.check_learner_adequacy(domain), line 48
check_learner_adequacy(l, domain) == domain.adequate

\* learner(data): a new model fitted by this learner on this table, line 51
Fit(l, table) ==
    [kind |-> "Model", learner |-> l.id, data |-> table.id, name |-> UnsetName]

\* variant: the earlier annotation is not cleared
ClearError_kept(w) == w

\* self.error(0) / self.error(0, text), lines 47 and 49
ClearError(w) == [w EXCEPT !.error = NoError]
SetError(w, text) == [w EXCEPT !.error = text]

\* self.send(channel, value), lines 54-55
send(w, channel, value) ==
    [w EXCEPT !.outputs = [@ EXCEPT ![channel] = value],
              !.sent = Append(@, [channel |-> channel, value |-> value])]

\* ------------------------------------------------------------- handlers
\* variant: one learner object, created once and reused by every apply
NewLearner_cached(w) ==
    [LEARNER(1, w.preprocessors) EXCEPT !.name = w.learner_name]

\* apply, lines 43-44: create and name the learner
NewLearner(w) ==
    [LEARNER(w.nobj + 1, w.preprocessors) EXCEPT !.name = w.learner_name]

\* variant: the predictor keeps the name the library gave it
NewPredictor_unnamed(l, table) == Fit(l, table)

\* apply, lines 51-52: fit and name the predictor
NewPredictor(l, table) ==
    [Fit(l, table) EXCEPT !.name = l.name]

\* variant: the adequacy check is reported but does not stop the fit
apply_compute_fit_anyway(w) ==
    LET l  == NewLearner(w)
        w1 == [w EXCEPT !.nobj = @ + 1, !.learner = l, !.predictor = None,
                        !.pc = "send_learner"]
    IN  IF w1.data # None
        THEN LET w2 == ClearError(w1)
                 w3 == IF ~check_learner_adequacy(l, w2.data.domain)
                       THEN SetError(w2, learner_adequacy_err_msg)
                       ELSE w2
             IN  [w3 EXCEPT !.predictor = NewPredictor(l, w3.data),
                            !.fits = @ \cup {<<l.id, w3.data.id>>}]
        ELSE w1

\* variant: predictor starts from the value published last instead of None
apply_compute_stale(w) ==
    LET l  == NewLearner(w)
        w1 == [w EXCEPT !.nobj = @ + 1, !.learner = l,
                        !.predictor = w.outputs.Predictor,
                        !.pc = "send_learner"]
    IN  IF w1.data # None
        THEN LET w2 == ClearError(w1)
             IN  IF ~check_learner_adequacy(l, w2.data.domain)
                 THEN SetError(w2, learner_adequacy_err_msg)
                 ELSE [w2 EXCEPT !.predictor = NewPredictor(l, w2.data),
                                 !.fits = @ \cup {<<l.id, w2.data.id>>}]
        ELSE w1

\* apply, lines 43-52: everything before the two sends
apply_compute(w) ==
    LET l  == NewLearner(w)
        w1 == [w EXCEPT !.nobj = @ + 1, !.learner = l, !.predictor = None,
                        !.pc = "send_learner"]
    IN  IF w1.data # None
        THEN LET w2 == ClearError(w1)
             IN  IF ~check_learner_adequacy(l, w2.data.domain)
                 THEN SetError(w2, learner_adequacy_err_msg)
                 ELSE [w2 EXCEPT !.predictor = NewPredictor(l, w2.data),
                                 !.fits = @ \cup {<<l.id, w2.data.id>>}]
        ELSE w1

\* variant: the learner is sent only when there is data
apply_send_learner_guarded(w) ==
    IF w.data # None
    THEN [send(w, "Learner", w.learner) EXCEPT !.pc = "send_predictor"]
    ELSE [w EXCEPT !.pc = "send_predictor"]

\* apply, line 54
apply_send_learner(w) ==
    [send(w, "Learner", w.learner) EXCEPT !.pc = "send_predictor"]

\* variant: a predictor is sent only when one was fitted
apply_send_predictor_guarded(w) ==
    IF w.predictor # None
    THEN [send(w, "Predictor", w.predictor) EXCEPT
            !.pc = "idle", !.learner = None, !.predictor = None]
    ELSE [w EXCEPT !.pc = "idle", !.learner = None, !.predictor = None]

\* apply, line 55, and the return: the locals go away
apply_send_predictor(w) ==
    [send(w, "Predictor", w.predictor) EXCEPT
        !.pc = "idle", !.learner = None, !.predictor = None]

\* apply as a whole, lines 42-55
apply(w) == apply_send_predictor(apply_send_learner(apply_compute(w)))

\* variant: None is not stored
set_data_keep(w, d) ==
    [w EXCEPT !.data = IF d # None THEN d ELSE @,
              !.pc = IF d # None THEN "apply" ELSE "idle",
              !.call = [op |-> "set_data", arg |-> d]]

\* set_data, lines 37-40 (the call of apply continues at pc = "apply")
set_data(w, d) ==
    [w EXCEPT !.data = d,
              !.pc = IF d # None THEN "apply" ELSE "idle",
              !.call = [op |-> "set_data", arg |-> d]]

\* the Apply button, lines 32-33: callback=self.apply
press_apply(w) ==
    [w EXCEPT !.pc = "apply", !.call = [op |-> "apply", arg |-> None]]

\* the line edit bound to learner_name, line 31
edit_name(w, n) ==
    [w EXCEPT !.learner_name = n, !.call = [op |-> "edit", arg |-> None]]

\* __init__, lines 25-34, with the name n restored from the settings
constructed(n) ==
    [data |-> None, preprocessors |-> None, learner_name |-> n,
     error |-> NoError,
     outputs |-> [Learner |-> None, Predictor |-> None],
     sent |-> <<>>, nobj |-> 0, fits |-> {}, pc |-> "apply",
     learner |-> None, predictor |-> None,
     call |-> [op |-> "__init__", arg |-> None]]

\* __init__, lines 24-35: the constructor ends with self.apply()
init(n) == apply(constructed(n))

\* -------------------------------------------------------------- actions
Init == \E n \in Names : Is(init(n))

SetData ==
    /\ pc = "idle"
    /\ \E d \in DataArgs :
          /\ d # None => nobj < MaxLearners
          /\ Becomes(set_data(W, d))

PressApply ==
    /\ pc = "idle"
    /\ nobj < MaxLearners
    /\ Becomes(press_apply(W))

EditName ==
    /\ pc = "idle"
    /\ \E n \in Names : Becomes(edit_name(W, n))

ApplyCompute ==
    /\ pc = "apply"
    /\ Becomes(apply_compute(W))

ApplySendLearner ==
    /\ pc = "send_learner"
    /\ Becomes(apply_send_learner(W))

ApplySendPredictor ==
    /\ pc = "send_predictor"
    /\ Becomes(apply_send_predictor(W))

Next ==
    \/ SetData
    \/ PressApply
    \/ EditName
    \/ ApplyCompute
    \/ ApplySendLearner
    \/ ApplySendPredictor

Spec == Init /\ [][Next]_vars

\* ---------------------------------------------------------------- types
Idle == pc = "idle"
Adequate(d) == d # None /\ check_learner_adequacy(None, d.domain)
Inadequate(d) == d # None /\ ~check_learner_adequacy(None, d.domain)

TypeOK ==
    /\ data \in DataArgs
    /\ preprocessors = None
    /\ learner_name \in Names
    /\ error \in {NoError, learner_adequacy_err_msg}
    /\ nobj \in 1..MaxLearners
    /\ pc \in {"idle", "apply", "send_learner", "send_predictor"}
    /\ Len(sent) <= 2 * MaxLearners

\* --------------------------------------------------------------- claims
Last(s) == s[Len(s)]
IsModel(v) == v.kind = "Model"
IsLearner(v) == v.kind = "Learner"

\* C1: in every state where no callback is executing, the value most
\* recently published on the Predictor output is non-None only if self.data
\* is non-None and passes the adequacy check.
C1_PredictorOnlyIfAdequateData ==
    Idle => (outputs.Predictor # None => Adequate(data))

\* C2: whenever apply runs on a non-None dataset that fails the adequacy
\* check, when apply returns the error annotation shows the learner's
\* adequacy message, the Predictor value published by that apply is None and
\* the learner of that apply was never called on the data.
C2_InadequateDataGivesErrorAndNoPredictor ==
    [][ (pc # "idle" /\ Inadequate(data)) =>
          /\ error' = learner_adequacy_err_msg
          /\ predictor' = None
          /\ \A f \in fits' : f[1] # nobj'
          /\ (pc = "send_predictor" =>
                /\ pc' = "idle"
                /\ Last(sent') = [channel |-> "Predictor", value |-> None]
                /\ outputs'.Predictor = None) ]_vars

\* C2 witness: an apply on an inadequate dataset has returned, replacing an
\* earlier fitted predictor by None.
C2_Witness ==
    /\ Idle
    /\ Inadequate(data)
    /\ call.op \in {"set_data", "apply"}
    /\ error = learner_adequacy_err_msg
    /\ outputs.Predictor = None
    /\ \E i \in 1..Len(sent) : IsModel(sent[i].value)

\* C3: every execution of apply publishes a non-None learner on the Learner
\* output whatever the dataset is, so from the end of construction onward
\* the Learner output always holds a learner.
C3_LearnerAlwaysEmitted ==
    /\ [](outputs.Learner # None /\ IsLearner(outputs.Learner))
    /\ [][ /\ (pc = "apply" => pc' = "send_learner" /\ IsLearner(learner'))
           /\ (pc = "send_learner" =>
                 /\ IsLearner(learner)
                 /\ sent' = Append(sent, [channel |-> "Learner", value |-> learner])
                 /\ outputs'.Learner = learner) ]_vars

\* C3 witness: the Apply button was pressed with no data and the learner on
\* the output is the one created by that apply.
C3_Witness ==
    /\ Idle
    /\ data = None
    /\ call.op = "apply"
    /\ nobj >= 3
    /\ outputs.Learner.id = nobj
    /\ \E i \in 1..Len(sent) : sent[i].channel = "Predictor" /\ sent[i].value = None

\* C4: whenever no callback is executing and the current dataset is
\* non-None and adequate, the Predictor output holds a predictor fitted on
\* that dataset and no error annotation is displayed.
C4_AdequateDataGivesPredictor ==
    (Idle /\ Adequate(data)) =>
        /\ outputs.Predictor # None
        /\ IsModel(outputs.Predictor)
        /\ outputs.Predictor.data = data.id
        /\ error = NoError

\* C4 witness: an adequate dataset is current after another dataset had
\* been fitted and after an apply that published no predictor.
C4_Witness ==
    /\ Idle
    /\ Adequate(data)
    /\ IsModel(outputs.Predictor)
    /\ outputs.Predictor.data = data.id
    /\ \E f \in fits : f[2] # data.id
    /\ \E i \in 3..Len(sent) : sent[i].channel = "Predictor" /\ sent[i].value = None

\* C5: each apply publishes a learner distinct from every learner published
\* earlier, and a non-None predictor it publishes was fitted during that
\* apply by that learner on the dataset current at that moment.
C5_RecreatedOnEveryApply ==
    [][ /\ (pc = "apply" /\ predictor' # None =>
              /\ <<predictor'.learner, predictor'.data>> \in fits' \ fits
              /\ predictor'.learner = learner'.id
              /\ predictor'.data = data.id)
        /\ (pc = "send_learner" =>
              \A i \in 1..Len(sent) :
                 sent[i].channel = "Learner" => sent[i].value.id # Last(sent').value.id)
        /\ (pc = "send_predictor" /\ outputs'.Predictor # None =>
              /\ outputs'.Predictor.learner = outputs'.Learner.id
              /\ outputs'.Predictor.data = data.id
              /\ \A i \in 1..Len(sent) : sent[i].value # outputs'.Predictor) ]_vars

\* C5 witness: a second predictor for the same dataset is on the output,
\* fitted by the newest learner.
C5_Witness ==
    /\ Idle
    /\ outputs.Predictor # None
    /\ outputs.Predictor.learner = nobj
    /\ \E f \in fits : f[2] = outputs.Predictor.data /\ f[1] < nobj

\* C6: the history of sends alternates Learner, Predictor, ..., and when no
\* callback is executing every execution of apply has contributed exactly
\* one send on each output.
C6_SendsAlternate ==
    /\ \A i \in 1..Len(sent) :
          sent[i].channel = IF i % 2 = 1 THEN "Learner" ELSE "Predictor"
    /\ pc \in {"idle", "apply"} => Len(sent) = 2 * nobj
    /\ pc = "send_learner" => Len(sent) = 2 * nobj - 2
    /\ pc = "send_predictor" => Len(sent) = 2 * nobj - 1

\* C6 witness: three applies have completed, at least one of them with a
\* None predictor and one with a fitted predictor.
C6_Witness ==
    /\ Idle
    /\ Len(sent) = 6
    /\ \E i \in 1..Len(sent) : sent[i].channel = "Predictor" /\ sent[i].value = None
    /\ \E i \in 1..Len(sent) : sent[i].channel = "Predictor" /\ sent[i].value # None

\* C7: apply leaves data, learner_name and preprocessors unchanged; data
\* changes only in set_data, which sets it to exactly its argument; a name
\* edit changes only learner_name.
C7_Frame ==
    [][ /\ (pc # "idle" => UNCHANGED <<data, learner_name, preprocessors>>)
        /\ (data' # data => pc = "idle" /\ call'.op = "set_data")
        /\ (pc = "idle" /\ call'.op = "set_data" /\ (call' # call \/ data' # data)
              => data' = call'.arg)
        /\ (learner_name' # learner_name =>
              /\ call'.op = "edit"
              /\ UNCHANGED <<data, preprocessors, error, outputs, sent, nobj,
                             fits, pc, learner, predictor>>) ]_vars

\* C7 witness: set_data(None) has replaced a dataset that had been fitted,
\* and the name was edited before.
C7_Witness ==
    /\ Idle
    /\ call = [op |-> "set_data", arg |-> None]
    /\ data = None
    /\ fits # {}
    /\ learner_name # outputs.Learner.name

\* C8: in every state where no callback is executing, a displayed error
\* annotation implies that the current dataset is non-None and fails the
\* adequacy check.
C8_ErrorOnlyWithInadequateData ==
    (Idle /\ error # NoError) => Inadequate(data)

\* C9: in every state where no callback is executing, the error annotation
\* and a non-None predictor on the Predictor output are never present
\* together.
C9_ErrorExcludesPredictor ==
    Idle => ~(error # NoError /\ outputs.Predictor # None)

\* C9 witness: an error is displayed after a predictor had been published,
\* and the Apply button was pressed since.
C9_Witness ==
    /\ Idle
    /\ error # NoError
    /\ outputs.Predictor = None
    /\ call.op = "apply"
    /\ fits # {}

\* C10: the learner published by an apply carries the value of learner_name
\* at that moment, a predictor published by the same apply carries the same
\* name, and editing learner_name publishes nothing.
C10_NamesFixedAtApply ==
    [][ /\ (pc = "send_learner" =>
              /\ Last(sent').channel = "Learner"
              /\ Last(sent').value.name = learner_name)
        /\ (pc = "send_predictor" /\ predictor # None =>
              /\ Last(sent').channel = "Predictor"
              /\ Last(sent').value.name = outputs.Learner.name
              /\ Last(sent').value.name = learner_name)
        /\ (learner_name' # learner_name => UNCHANGED <<outputs, sent>>) ]_vars

\* C10 witness: the name was edited after an apply that published a
\* predictor; both published objects still carry the older name.
C10_Witness ==
    /\ Idle
    /\ call.op = "edit"
    /\ outputs.Predictor # None
    /\ outputs.Learner.name # learner_name
    /\ outputs.Predictor.name = outputs.Learner.name

====
